---- MODULE Spec2Model ----
(***************************************************************************)
(* Model of the google-genai example scripts:                              *)
(*   basic_generation.py, streaming_generation.py, image_analysis.py,      *)
(*   multimodal_chat.py, function_calling.py.                              *)
(*                                                                         *)
(* Every example function is an operator from its inputs (the environment, *)
(* the arguments, what the SDK and PIL answer) to a run record:            *)
(*   effects  : the externally visible steps it took, in order             *)
(*   requests : the requests it handed to the SDK, in order                *)
(*   outcome  : "return", "yield", "generator", "StopIteration", "exit0",  *)
(*              "exit1", or the name of the exception that left it         *)
(*   result   : the returned / yielded value                               *)
(*   contents : the final value of the local list `contents`               *)
(* Python's Optional[T] is a sequence of length 0 (None) or 1.             *)
(***************************************************************************)
EXTENDS Integers, Sequences, FiniteSets, TLC

VARIABLES
    env,          \* os.environ["GEMINI_API_KEY"]: <<>> when unset, else <<value>>
    op,           \* the operation invoked last
    envAtCall,    \* env when that operation was invoked
    effects, requests, outcome, result, contents,   \* its run record
    sdk_response, \* the first response the SDK gave (or will give) to it
    argv,         \* sys.argv of the script run, <<>> for a function call
    chat,         \* the chat object held by the caller: <<>> or <<[history |-> n]>>
    gen           \* the generator object returned by stream_text, held by the caller

vars == <<env, op, envAtCall, effects, requests, outcome, result, contents,
          sdk_response, argv, chat, gen>>

-----------------------------------------------------------------------------
(* Bounds *)
MaxCandidates == 2     \* candidates in one response
MaxParts == 2          \* parts in one candidate's content
MaxChunks == 2         \* chunks in one stream
MaxHistory == 2        \* entries of chat history kept by the held chat object
MaxImages == 2         \* paths handed to analyze_multiple_images
MaxArgs == 1           \* command-line arguments after the script name

-----------------------------------------------------------------------------
(* Values *)
None == <<>>
Some(x) == <<x>>

RECURSIVE SeqsUpTo(_, _)
SeqsUpTo(S, n) ==
    IF n = 0 THEN {<<>>}
    ELSE LET shorter == SeqsUpTo(S, n - 1)
         IN  shorter \cup {Append(s, x) : s \in {t \in shorter : Len(t) = n - 1}, x \in S}

EnvValues == {None, Some(""), Some("key")}

\* what the SDK raises for a request that fails
Errors == {"NetworkError", "QuotaError"}

EmptyPart == [text |-> None, function_call |-> None, function_response |-> None,
              image |-> None]
TextPart(t) == [EmptyPart EXCEPT !.text = Some(t)]
ImagePart(path) == [EmptyPart EXCEPT !.image = Some(path)]
FunctionCallPart(fc) == [EmptyPart EXCEPT !.function_call = Some(fc)]

\* types.Part.from_function_response(name=..., response=...)
from_function_response(name, response) ==
    [EmptyPart EXCEPT !.function_response = Some([name |-> name, response |-> response])]

\* types.Content(role=..., parts=[...])
Content(role, parts) == [role |-> role, parts |-> parts]
\* a str or PIL image handed to the SDK as it is, without a Content around it
Bare(part) == Content("bare", <<part>>)

\* a function call carries a name and a dict of arguments (here: its items)
FunctionCalls ==
    { [name |-> "get_weather", args |-> {<<"location", "Tokyo">>}],
      [name |-> "extract_data", args |-> {}] }

ModelParts == {TextPart("text")} \cup {FunctionCallPart(fc) : fc \in FunctionCalls}

ResponsesOf(parts, nc, np) ==
    { [candidates |-> cs] :
        cs \in SeqsUpTo({[content |-> Content("model", ps)] : ps \in SeqsUpTo(parts, np)}, nc) }

Responses == ResponsesOf(ModelParts, MaxCandidates, MaxParts)
\* the answers used where only the first part of the first candidate is read
ShortResponses == ResponsesOf(ModelParts, 1, 1)
\* the answers used where only response.text is read
TextResponses == ResponsesOf({TextPart("text")}, 1, 1)

\* what one SDK call does: return a response (err = ""), or raise err
NoResponse == [candidates |-> <<>>]
SdkResults(rs) ==
    {[err |-> "", response |-> r] : r \in rs}
        \cup {[err |-> e, response |-> NoResponse] : e \in Errors}
Fails(sdk) == sdk.err # ""

\* response.text: the text parts of the first candidate, None when there are none
Text(response) ==
    IF response.candidates = <<>> THEN None
    ELSE LET ps == response.candidates[1].content.parts
             ts == SelectSeq(ps, LAMBDA p : p.text # None)
         IN  IF ts = <<>> THEN None ELSE Some([i \in 1..Len(ts) |-> ts[i].text[1]])

Run(e, rq, o, r, c) ==
    [effects |-> e, requests |-> rq, outcome |-> o, result |-> r, contents |-> c]

\* a request handed to the SDK and how the SDK answered it: err is what the call
\* raised ("" when it returned), tail what its stream raised after its chunks
Request(api, cont, tools, sdk) ==
    [api |-> api, contents |-> cont, tools |-> tools, err |-> sdk.err, tail |-> ""]

RequestKinds == {"generate_content", "generate_content_stream", "send_message"}
NumRequests(e) == Len(SelectSeq(e, LAMBDA x : x \in RequestKinds))

\* `not api_key`
NotKey(api_key) == api_key = None \/ api_key = Some("")

-----------------------------------------------------------------------------
(* function_calling.py *)

\* get_client(): the steps taken and whether a client came back
get_client(environ) ==
    IF NotKey(environ)
    THEN [effects |-> <<"getenv">>, raised |-> TRUE]
    ELSE [effects |-> <<"getenv", "Client">>, raised |-> FALSE]

\* the inner loop of find_function_call, from part j on
RECURSIVE FindInParts(_, _)
FindInParts(parts, j) ==
    IF j > Len(parts) THEN None
    ELSE IF parts[j].function_call # None THEN parts[j].function_call
    ELSE FindInParts(parts, j + 1)

\* the outer loop of find_function_call, from candidate i on
RECURSIVE FindInCandidates(_, _)
FindInCandidates(candidates, i) ==
    IF i > Len(candidates) THEN None
    ELSE LET found == FindInParts(candidates[i].content.parts, 1)
         IN  IF found # None THEN found ELSE FindInCandidates(candidates, i + 1)

\* find_function_call keeping the last function call it meets
RECURSIVE LastInCandidates(_, _, _)
LastInCandidates(candidates, i, last) ==
    IF i > Len(candidates) THEN last
    ELSE LET calls == SelectSeq(candidates[i].content.parts,
                                LAMBDA part : part.function_call # None)
         IN  LastInCandidates(candidates, i + 1,
                              IF calls = <<>> THEN last ELSE calls[Len(calls)].function_call)

find_last_function_call(response) == LastInCandidates(response.candidates, 1, None)

find_function_call(response) == FindInCandidates(response.candidates, 1)

extract_structured_data(environ, text, sdk) ==
    LET client == get_client(environ)
        req == Request("generate_content", <<Bare(TextPart(text))>>, "extract_data", sdk)
        function_call == find_function_call(sdk.response)
    IN  IF client.raised
        THEN Run(client.effects, <<>>, "ValueError", None, <<>>)
        ELSE IF Fails(sdk)
        THEN Run(client.effects \o <<"generate_content">>, <<req>>, sdk.err, None, <<>>)
        ELSE IF function_call # None
        THEN Run(client.effects \o <<"generate_content">>, <<req>>, "return",
                 function_call[1].args, <<>>)
        ELSE Run(client.effects \o <<"generate_content">>, <<req>>, "return", {}, <<>>)

function_result == {<<"temperature", "22">>, <<"condition", "Sunny">>, <<"humidity", "60">>}

\* function_calling_flow stopping after the function call is printed
function_calling_flow_no_second_request(environ, prompt, sdk, sdk2) ==
    LET client == get_client(environ)
        contents0 == <<Content("user", <<TextPart(prompt)>>)>>
        req1 == Request("generate_content", contents0, "get_weather", sdk)
        function_call == find_function_call(sdk.response)
        e1 == client.effects \o <<"generate_content">>
    IN  IF client.raised
        THEN Run(client.effects, <<>>, "ValueError", None, <<>>)
        ELSE IF Fails(sdk)
        THEN Run(e1, <<req1>>, sdk.err, None, contents0)
        ELSE IF function_call = None
        THEN Run(e1 \o <<"print:Response">>, <<req1>>, "return", None, contents0)
        ELSE Run(e1 \o <<"print:Function called", "print:Arguments">>, <<req1>>, "return",
                 None, contents0)

\* function_calling_flow with the two appends in the other order
function_calling_flow_swapped(environ, prompt, sdk, sdk2) ==
    LET client == get_client(environ)
        contents0 == <<Content("user", <<TextPart(prompt)>>)>>
        req1 == Request("generate_content", contents0, "get_weather", sdk)
        function_call == find_function_call(sdk.response)
        function_response_part ==
            from_function_response(function_call[1].name, {<<"result", function_result>>})
        contents2 == Append(Append(contents0, Content("user", <<function_response_part>>)),
                            sdk.response.candidates[1].content)
        req2 == Request("generate_content", contents2, "get_weather", sdk2)
        e1 == client.effects \o <<"generate_content">>
        e2 == e1 \o <<"print:Function called", "print:Arguments", "generate_content">>
    IN  IF client.raised
        THEN Run(client.effects, <<>>, "ValueError", None, <<>>)
        ELSE IF Fails(sdk)
        THEN Run(e1, <<req1>>, sdk.err, None, contents0)
        ELSE IF function_call = None
        THEN Run(e1 \o <<"print:Response">>, <<req1>>, "return", None, contents0)
        ELSE IF Fails(sdk2)
        THEN Run(e2, <<req1, req2>>, sdk2.err, None, contents2)
        ELSE Run(e2 \o <<"print:Final response">>, <<req1, req2>>, "return", None, contents2)

function_calling_flow(environ, prompt, sdk, sdk2) ==
    LET client == get_client(environ)
        contents0 == <<Content("user", <<TextPart(prompt)>>)>>
        req1 == Request("generate_content", contents0, "get_weather", sdk)
        function_call == find_function_call(sdk.response)
        function_response_part ==
            from_function_response(function_call[1].name, {<<"result", function_result>>})
        contents2 == Append(Append(contents0, sdk.response.candidates[1].content),
                            Content("user", <<function_response_part>>))
        req2 == Request("generate_content", contents2, "get_weather", sdk2)
        e1 == client.effects \o <<"generate_content">>
        e2 == e1 \o <<"print:Function called", "print:Arguments", "generate_content">>
    IN  IF client.raised
        THEN Run(client.effects, <<>>, "ValueError", None, <<>>)
        ELSE IF Fails(sdk)
        THEN Run(e1, <<req1>>, sdk.err, None, contents0)
        ELSE IF function_call = None
        THEN Run(e1 \o <<"print:Response">>, <<req1>>, "return", None, contents0)
        ELSE IF Fails(sdk2)
        THEN Run(e2, <<req1, req2>>, sdk2.err, None, contents2)
        ELSE Run(e2 \o <<"print:Final response">>, <<req1, req2>>, "return", None, contents2)

-----------------------------------------------------------------------------
(* basic_generation.py *)

\* generate_text with the request sent once more when it fails
generate_text_retry(environ, prompt, sdk) ==
    LET req == Request("generate_content", <<Bare(TextPart(prompt))>>, "", sdk)
    IN  IF NotKey(environ)
        THEN Run(<<"getenv">>, <<>>, "ValueError", None, <<>>)
        ELSE IF Fails(sdk)
        THEN Run(<<"getenv", "Client", "generate_content", "generate_content">>,
                 <<req, req>>, sdk.err, None, <<>>)
        ELSE Run(<<"getenv", "Client", "generate_content">>, <<req>>, "return",
                 Text(sdk.response), <<>>)

generate_text(environ, prompt, sdk) ==
    LET req == Request("generate_content", <<Bare(TextPart(prompt))>>, "", sdk)
    IN  IF NotKey(environ)
        THEN Run(<<"getenv">>, <<>>, "ValueError", None, <<>>)
        ELSE IF Fails(sdk)
        THEN Run(<<"getenv", "Client", "generate_content">>, <<req>>, sdk.err, None, <<>>)
        ELSE Run(<<"getenv", "Client", "generate_content">>, <<req>>, "return",
                 Text(sdk.response), <<>>)

-----------------------------------------------------------------------------
(* image_analysis.py *)

\* analyze_image with the image opened before the credential is looked at
analyze_image_opens_first(environ, image_path, opens, sdk) ==
    LET req == Request("generate_content",
                       <<Bare(ImagePart(image_path)), Bare(TextPart("Describe this image"))>>,
                       "", sdk)
        e1 == <<"Image.open", "getenv", "Client">>
    IN  IF ~opens
        THEN Run(<<"Image.open">>, <<>>, "FileNotFoundError", None, <<>>)
        ELSE IF NotKey(environ)
        THEN Run(<<"Image.open", "getenv">>, <<>>, "ValueError", None, <<>>)
        ELSE IF Fails(sdk)
        THEN Run(e1 \o <<"generate_content">>, <<req>>, sdk.err, None, <<>>)
        ELSE Run(e1 \o <<"generate_content">>, <<req>>, "return", Text(sdk.response), <<>>)

\* Image.open(path) either returns the image or raises; `opens` says which
analyze_image(environ, image_path, opens, sdk) ==
    LET req == Request("generate_content",
                       <<Bare(ImagePart(image_path)), Bare(TextPart("Describe this image"))>>,
                       "", sdk)
        e1 == <<"getenv", "Client", "Image.open">>
    IN  IF NotKey(environ)
        THEN Run(<<"getenv">>, <<>>, "ValueError", None, <<>>)
        ELSE IF ~opens
        THEN Run(e1, <<>>, "FileNotFoundError", None, <<>>)
        ELSE IF Fails(sdk)
        THEN Run(e1 \o <<"generate_content">>, <<req>>, sdk.err, None, <<>>)
        ELSE Run(e1 \o <<"generate_content">>, <<req>>, "return", Text(sdk.response), <<>>)

\* image_paths are opened in order; bad = index of the first path that does not
\* open, 0 when all open
analyze_multiple_images(environ, image_paths, bad, prompt, sdk) ==
    LET n == Len(image_paths)
        opened == IF bad = 0 THEN n ELSE bad
        images == [i \in 1..n |-> Bare(ImagePart(image_paths[i]))]
        req == Request("generate_content", images \o <<Bare(TextPart(prompt))>>, "", sdk)
        e1 == <<"getenv", "Client">> \o [i \in 1..opened |-> "Image.open"]
    IN  IF NotKey(environ)
        THEN Run(<<"getenv">>, <<>>, "ValueError", None, <<>>)
        ELSE IF bad # 0
        THEN Run(e1, <<>>, "FileNotFoundError", None, <<>>)
        ELSE IF Fails(sdk)
        THEN Run(e1 \o <<"generate_content">>, <<req>>, sdk.err, None, <<>>)
        ELSE Run(e1 \o <<"generate_content">>, <<req>>, "return", Text(sdk.response), <<>>)

-----------------------------------------------------------------------------
(* multimodal_chat.py *)

\* the chat object: the number of entries of its history
NewChat == [history |-> 0]

multimodal_chat_session(environ) ==
    IF NotKey(environ)
    THEN Run(<<"getenv">>, <<>>, "ValueError", None, <<>>)
    ELSE Run(<<"getenv", "Client", "chats.create">>, <<>>, "return", Some(NewChat), <<>>)

send_text_message(ch, message, sdk) ==
    LET req == Request("send_message", <<Bare(TextPart(message))>>, "", sdk)
    IN  IF Fails(sdk)
        THEN Run(<<"send_message">>, <<req>>, sdk.err, None, <<>>)
        ELSE Run(<<"send_message">>, <<req>>, "return", Text(sdk.response), <<>>)

send_image_message(ch, image_path, opens, message, sdk) ==
    LET req == Request("send_message",
                       <<Bare(ImagePart(image_path)), Bare(TextPart(message))>>, "", sdk)
    IN  IF ~opens
        THEN Run(<<"Image.open">>, <<>>, "FileNotFoundError", None, <<>>)
        ELSE IF Fails(sdk)
        THEN Run(<<"Image.open", "send_message">>, <<req>>, sdk.err, None, <<>>)
        ELSE Run(<<"Image.open", "send_message">>, <<req>>, "return",
                 Text(sdk.response), <<>>)

get_chat_history(ch) == Run(<<>>, <<>>, "return", ch.history, <<>>)

\* chat.send_message records the user turn and the answer once it has answered
ChatAfter(ch, run) ==
    IF run.outcome = "return" /\ run.requests # <<>>
    THEN [ch EXCEPT !.history = @ + 2]
    ELSE ch

-----------------------------------------------------------------------------
(* streaming_generation.py *)

\* what generate_content_stream does: raise err at once, or deliver the chunks
\* (each a chunk.text, "" for a chunk without text) and then end, or raise tail
Streams ==
    {[err |-> "", chunks |-> cs, tail |-> t] :
        cs \in SeqsUpTo({"tok", ""}, MaxChunks), t \in Errors \cup {""}}
        \cup {[err |-> e, chunks |-> <<>>, tail |-> ""] : e \in Errors}

\* the generator object: where its frame stands, what is left of its stream, how
\* the stream ends, and the requests it has issued
NoGen == [state |-> "none", chunks |-> <<>>, tail |-> "", requests |-> 0]

\* calling stream_text(prompt) runs none of its body: it builds the generator
stream_text(prompt) ==
    [run |-> Run(<<>>, <<>>, "generator", None, <<>>),
     gen |-> [NoGen EXCEPT !.state = "created"]]

\* `for chunk in stream: if chunk.text: yield chunk.text`, up to the next yield
RECURSIVE StreamLoop(_, _, _, _)
StreamLoop(g, e, rq, chunks) ==
    IF chunks = <<>>
    THEN [run |-> Run(e, rq, IF g.tail # "" THEN g.tail ELSE "StopIteration", None, <<>>),
          gen |-> [g EXCEPT !.state = "closed", !.chunks = <<>>]]
    ELSE IF Head(chunks) # ""
    THEN [run |-> Run(e, rq, "yield", Some(Head(chunks)), <<>>),
          gen |-> [g EXCEPT !.state = "suspended", !.chunks = Tail(chunks)]]
    ELSE StreamLoop(g, e, rq, Tail(chunks))

\* next(generator): the body of stream_text from where it stands to its next
\* yield, return or raise
stream_text_next(g, environ, prompt, stream) ==
    LET req == [Request("generate_content_stream", <<Bare(TextPart(prompt))>>, "", stream)
                   EXCEPT !.tail = stream.tail]
        e1 == <<"getenv", "Client", "generate_content_stream">>
        closed == [g EXCEPT !.state = "closed", !.chunks = <<>>]
    IN  CASE g.state = "created" ->
                IF NotKey(environ)
                THEN [run |-> Run(<<"getenv">>, <<>>, "ValueError", None, <<>>),
                      gen |-> closed]
                ELSE IF Fails(stream)
                THEN [run |-> Run(e1, <<req>>, stream.err, None, <<>>),
                      gen |-> [closed EXCEPT !.requests = @ + 1]]
                ELSE StreamLoop([g EXCEPT !.tail = stream.tail, !.requests = @ + 1],
                                e1, <<req>>, stream.chunks)
          [] g.state = "suspended" -> StreamLoop(g, <<>>, <<>>, g.chunks)
          [] OTHER -> [run |-> Run(<<>>, <<>>, "StopIteration", None, <<>>), gen |-> g]

-----------------------------------------------------------------------------
(* The scripts run as programs.  A script ends "exit0", "exit1" (sys.exit(1)),
   or with the name of the exception that nothing caught. *)

Script(e, rq, o) == Run(e, rq, IF o = "return" THEN "exit0" ELSE o, None, <<>>)

\* basic_generation.py
main_basic_generation(environ, args, sdk) ==
    LET r == generate_text(environ, "Explain quantum computing", sdk)
    IN  IF r.outcome = "return"
        THEN Script(r.effects \o <<"print:result">>, r.requests, "return")
        ELSE Script(r.effects, r.requests, r.outcome)

\* `for chunk in stream_text(prompt): print(chunk, ...)`
RECURSIVE PrintChunks(_, _, _, _, _)
PrintChunks(g, environ, stream, e, rq) ==
    LET step == stream_text_next(g, environ, "Write a short story", stream)
        e2 == e \o step.run.effects
        rq2 == rq \o step.run.requests
    IN  IF step.run.outcome = "yield"
        THEN PrintChunks(step.gen, environ, stream, e2 \o <<"print:chunk">>, rq2)
        ELSE IF step.run.outcome = "StopIteration"
        THEN Script(e2 \o <<"print:newline">>, rq2, "return")
        ELSE Script(e2, rq2, step.run.outcome)

\* streaming_generation.py
main_streaming_generation(environ, args, stream) ==
    PrintChunks(stream_text("Write a short story").gen, environ, stream,
                <<"print:Streaming response:">>, <<>>)

\* image_analysis.py falling back to a default path instead of the usage exit
main_image_analysis_default_path(environ, args, opens, sdk) ==
    LET r == analyze_image(environ, IF Len(args) < 2 THEN "img.png" ELSE args[2], opens, sdk)
    IN  IF r.outcome = "return"
        THEN Script(r.effects \o <<"print:Image Analysis">>, r.requests, "return")
        ELSE Script(r.effects, r.requests, r.outcome)

\* image_analysis.py
main_image_analysis(environ, args, opens, sdk) ==
    IF Len(args) < 2
    THEN Script(<<"print:Usage">>, <<>>, "exit1")
    ELSE LET r == analyze_image(environ, args[2], opens, sdk)
         IN  IF r.outcome = "return"
             THEN Script(r.effects \o <<"print:Image Analysis">>, r.requests, "return")
             ELSE Script(r.effects, r.requests, r.outcome)

\* multimodal_chat.py
main_multimodal_chat(environ, args, sdkA, sdkB) ==
    LET s == multimodal_chat_session(environ)
        e0 == <<"print:Starting">> \o s.effects
        a == send_text_message(s.result[1], "Hello!", sdkA)
        chA == ChatAfter(s.result[1], a)
        eA == e0 \o <<"print:Conversation">> \o a.effects
        b == send_text_message(chA, "Great!", sdkB)
        chB == ChatAfter(chA, b)
        eB == eA \o <<"print:User", "print:AI">> \o b.effects
        h == get_chat_history(chB)
    IN  IF s.outcome # "return" THEN Script(e0, <<>>, s.outcome)
        ELSE IF a.outcome # "return" THEN Script(eA, a.requests, a.outcome)
        ELSE IF b.outcome # "return" THEN Script(eB, a.requests \o b.requests, b.outcome)
        ELSE Script(eB \o <<"print:User", "print:AI", "print:Chat History">>
                       \o [i \in 1..h.result |-> "print:message"],
                    a.requests \o b.requests, "return")

\* function_calling.py
main_function_calling(environ, args, sdkE, sdk, sdk2) ==
    LET x == extract_structured_data(environ, "John Doe, 30 years old", sdkE)
        eX == <<"print:Example 1">> \o x.effects
        f == function_calling_flow(environ, "What's the weather like in Tokyo?", sdk, sdk2)
    IN  IF x.outcome # "return" THEN Script(eX, x.requests, x.outcome)
        ELSE Script(eX \o <<"print:json", "print:Example 2">> \o f.effects,
                    x.requests \o f.requests, f.outcome)

-----------------------------------------------------------------------------
(* The state machine: a caller that imports the modules and calls the example
   functions one after the other, changes the environment in between, keeps
   the chat and the generator it was handed; and the scripts run as programs. *)

Took(name, run, response, av) ==
    /\ op' = name
    /\ envAtCall' = env
    /\ effects' = run.effects
    /\ requests' = run.requests
    /\ outcome' = run.outcome
    /\ result' = run.result
    /\ contents' = run.contents
    /\ sdk_response' = response
    /\ argv' = av

Init ==
    /\ env \in EnvValues
    /\ op = "none" /\ envAtCall = env
    /\ effects = <<>> /\ requests = <<>> /\ outcome = "none" /\ result = None
    /\ contents = <<>> /\ sdk_response = NoResponse /\ argv = <<>>
    /\ chat = None
    /\ gen = NoGen

\* os.environ is changed (set, set to "", or deleted) between two invocations
SetEnv ==
    /\ \E v \in EnvValues \ {env} : env' = v
    /\ UNCHANGED <<op, envAtCall, effects, requests, outcome, result, contents,
                   sdk_response, argv, chat, gen>>

GenerateText ==
    /\ \E sdk \in SdkResults(TextResponses) :
          Took("generate_text", generate_text(env, "prompt", sdk), sdk.response, <<>>)
    /\ UNCHANGED <<env, chat, gen>>

AnalyzeImage ==
    /\ \E opens \in BOOLEAN, sdk \in SdkResults(TextResponses) :
          Took("analyze_image", analyze_image(env, "img.png", opens, sdk),
               sdk.response, <<>>)
    /\ UNCHANGED <<env, chat, gen>>

AnalyzeMultipleImages ==
    /\ \E n \in 0..MaxImages, sdk \in SdkResults(TextResponses) :
          \E bad \in 0..n :
             Took("analyze_multiple_images",
                  analyze_multiple_images(env, [i \in 1..n |-> "img.png"], bad, "prompt", sdk),
                  sdk.response, <<>>)
    /\ UNCHANGED <<env, chat, gen>>

\* chat = multimodal_chat_session(): the assignment happens only on return
MultimodalChatSession ==
    /\ LET run == multimodal_chat_session(env)
       IN  /\ Took("multimodal_chat_session", run, NoResponse, <<>>)
           /\ chat' = IF run.outcome = "return" THEN run.result ELSE chat
    /\ UNCHANGED <<env, gen>>

SendTextMessage ==
    /\ chat # None
    /\ chat[1].history < MaxHistory
    /\ \E sdk \in SdkResults(TextResponses) :
          LET run == send_text_message(chat[1], "message", sdk)
          IN  /\ Took("send_text_message", run, sdk.response, <<>>)
              /\ chat' = Some(ChatAfter(chat[1], run))
    /\ UNCHANGED <<env, gen>>

SendImageMessage ==
    /\ chat # None
    /\ chat[1].history < MaxHistory
    /\ \E opens \in BOOLEAN, sdk \in SdkResults(TextResponses) :
          LET run == send_image_message(chat[1], "img.png", opens, "message", sdk)
          IN  /\ Took("send_image_message", run, sdk.response, <<>>)
              /\ chat' = Some(ChatAfter(chat[1], run))
    /\ UNCHANGED <<env, gen>>

GetChatHistory ==
    /\ chat # None
    /\ Took("get_chat_history", get_chat_history(chat[1]), NoResponse, <<>>)
    /\ UNCHANGED <<env, chat, gen>>

\* gen = stream_text(prompt)
StreamText ==
    /\ LET call == stream_text("prompt")
       IN  /\ Took("stream_text", call.run, NoResponse, <<>>)
           /\ gen' = call.gen
    /\ UNCHANGED <<env, chat>>

NextName(state) ==
    CASE state = "created" -> "next (first)"
      [] state = "suspended" -> "next (resumed)"
      [] OTHER -> "next (closed)"

\* next(gen)
GeneratorNext ==
    /\ gen.state # "none"
    /\ \E stream \in IF gen.state = "created" THEN Streams
                     ELSE {[err |-> "", chunks |-> <<>>, tail |-> ""]} :
          LET step == stream_text_next(gen, env, "prompt", stream)
          IN  /\ Took(NextName(gen.state), step.run, NoResponse, <<>>)
              /\ gen' = step.gen
    /\ UNCHANGED <<env, chat>>

DoExtract(sdk) ==
    /\ Took("extract_structured_data", extract_structured_data(env, "text", sdk),
            sdk.response, <<>>)
    /\ UNCHANGED <<env, chat, gen>>

DoFlow(sdk, sdk2) ==
    /\ Took("function_calling_flow", function_calling_flow(env, "prompt", sdk, sdk2),
            sdk.response, <<>>)
    /\ UNCHANGED <<env, chat, gen>>

ExtractStructuredData == \E sdk \in SdkResults(ShortResponses) : DoExtract(sdk)

FunctionCallingFlow ==
    \E sdk \in SdkResults(ShortResponses), sdk2 \in SdkResults(TextResponses) :
        DoFlow(sdk, sdk2)

\* A script runs as a process of its own, which starts holding no chat and no
\* generator.
FreshProcess == chat = None /\ gen = NoGen

\* sys.argv of a script: its name, then up to MaxArgs arguments
Argvs(script) == {<<script>> \o a : a \in SeqsUpTo({"img.png"}, MaxArgs)}

RunBasicGeneration ==
    /\ FreshProcess
    /\ \E av \in Argvs("basic_generation.py"), sdk \in SdkResults(TextResponses) :
          Took("basic_generation.py", main_basic_generation(env, av, sdk), sdk.response, av)
    /\ UNCHANGED <<env, chat, gen>>

RunStreamingGeneration ==
    /\ FreshProcess
    /\ \E av \in Argvs("streaming_generation.py"), stream \in Streams :
          Took("streaming_generation.py", main_streaming_generation(env, av, stream),
               NoResponse, av)
    /\ UNCHANGED <<env, chat, gen>>

RunImageAnalysis ==
    /\ FreshProcess
    /\ \E av \in Argvs("image_analysis.py"), opens \in BOOLEAN,
          sdk \in SdkResults(TextResponses) :
          Took("image_analysis.py", main_image_analysis(env, av, opens, sdk),
               sdk.response, av)
    /\ UNCHANGED <<env, chat, gen>>

RunMultimodalChat ==
    /\ FreshProcess
    /\ \E av \in Argvs("multimodal_chat.py"),
          sdkA \in SdkResults(TextResponses), sdkB \in SdkResults(TextResponses) :
          Took("multimodal_chat.py", main_multimodal_chat(env, av, sdkA, sdkB),
               sdkA.response, av)
    /\ UNCHANGED <<env, chat, gen>>

RunFunctionCalling ==
    /\ FreshProcess
    /\ \E av \in Argvs("function_calling.py"), sdkE \in SdkResults(ShortResponses),
          sdk \in SdkResults(ShortResponses), sdk2 \in SdkResults(TextResponses) :
          Took("function_calling.py", main_function_calling(env, av, sdkE, sdk, sdk2),
               sdkE.response, av)
    /\ UNCHANGED <<env, chat, gen>>

Next ==
    \/ SetEnv
    \/ GenerateText
    \/ AnalyzeImage
    \/ AnalyzeMultipleImages
    \/ MultimodalChatSession
    \/ SendTextMessage
    \/ SendImageMessage
    \/ GetChatHistory
    \/ StreamText
    \/ GeneratorNext
    \/ ExtractStructuredData
    \/ FunctionCallingFlow
    \/ RunBasicGeneration
    \/ RunStreamingGeneration
    \/ RunImageAnalysis
    \/ RunMultimodalChat
    \/ RunFunctionCalling

Spec == Init /\ [][Next]_vars

-----------------------------------------------------------------------------
(* function_calling.py on every response within the bounds: the credential is
   set, the SDK's first answer is any response, and one function is applied. *)

InitFC ==
    /\ env = Some("key")
    /\ op = "none" /\ envAtCall = env
    /\ effects = <<>> /\ requests = <<>> /\ outcome = "none" /\ result = None
    /\ contents = <<>> /\ sdk_response \in Responses /\ argv = <<>>
    /\ chat = None
    /\ gen = NoGen

FindFunctionCall ==
    /\ op = "none"
    /\ Took("find_function_call",
            Run(<<>>, <<>>, "return", find_function_call(sdk_response), <<>>),
            sdk_response, <<>>)
    /\ UNCHANGED <<env, chat, gen>>

ExtractFromResponse ==
    /\ op = "none"
    /\ DoExtract([err |-> "", response |-> sdk_response])

FlowFromResponse ==
    /\ op = "none"
    /\ \E sdk2 \in SdkResults(TextResponses) :
          DoFlow([err |-> "", response |-> sdk_response], sdk2)

NextFC == FindFunctionCall \/ ExtractFromResponse \/ FlowFromResponse

SpecFC == InitFC /\ [][NextFC]_vars

-----------------------------------------------------------------------------
(* Properties *)

\* the functions that look the credential up themselves
CredentialChecked ==
    {"generate_text", "next (first)", "analyze_image", "analyze_multiple_images",
     "multimodal_chat_session", "extract_structured_data", "function_calling_flow"}

Functions ==
    CredentialChecked \cup
    {"stream_text", "next (resumed)", "next (closed)", "send_text_message",
     "send_image_message", "get_chat_history"}

Scripts ==
    {"basic_generation.py", "streaming_generation.py", "image_analysis.py",
     "multimodal_chat.py", "function_calling.py"}

Last(seq) == seq[Len(seq)]
Prints(e) == SelectSeq(e, LAMBDA x : x \notin RequestKinds
                                      /\ x \notin {"getenv", "Client", "Image.open", "chats.create"})

\* C1: for generate_text, stream_text once iterated, analyze_image,
\* analyze_multiple_images, multimodal_chat_session, extract_structured_data and
\* function_calling_flow, invoked with GEMINI_API_KEY unset or empty: the outcome
\* is ValueError and the lookup of the credential is the only effect of the run
\* (no client constructed, no image opened, no request issued).
C1_MissingCredentialStopsFirst ==
    (op \in CredentialChecked /\ NotKey(envAtCall))
        => /\ outcome = "ValueError"
           /\ effects = <<"getenv">>
           /\ requests = <<>>

C1_Witness ==
    /\ op = "next (first)" /\ envAtCall = Some("")
    /\ outcome = "ValueError" /\ gen.state = "closed"

\* C2: every example function called without the credential raises the
\* configuration error at the call itself, stream_text(prompt) included.
C2_RaisesAtTheCall ==
    (op \in (CredentialChecked \ {"next (first)"}) \cup {"stream_text"} /\ NotKey(envAtCall))
        => outcome = "ValueError"

\* C3: an example function issues a request only if the credential is present
\* when it is invoked, and without it fails with the configuration error;
\* send_text_message and send_image_message on an earlier chat included.
C3_RequestOnlyWithCredential ==
    (op \in Functions /\ NotKey(envAtCall))
        => /\ requests = <<>>
           /\ (op \in {"send_text_message", "send_image_message"} => outcome = "ValueError")

\* C4 as stated: every invocation of an example function and every run of a
\* script issues at most one request.
C4_AtMostOneRequest ==
    op \in Functions \cup Scripts => Len(requests) <= 1

\* some part of some candidate of the response carries a function call
CarriesFunctionCall(response) ==
    \E i \in 1..Len(response.candidates) :
        \E j \in 1..Len(response.candidates[i].content.parts) :
            response.candidates[i].content.parts[j].function_call # None

\* C4 as amended: every example function but function_calling_flow issues at most
\* one request per invocation (a generator at most one over its life);
\* function_calling_flow issues none without the credential, one when its first
\* request fails or its first response carries no function call, and two
\* otherwise; basic_generation.py, streaming_generation.py and image_analysis.py
\* issue at most one request per run, multimodal_chat.py two unless one fails,
\* function_calling.py two or three unless one fails.
C4_RequestsPerInvocation ==
    /\ Len(requests) = NumRequests(effects)
    /\ gen.requests <= 1
    /\ op \in Functions \ {"function_calling_flow"} => Len(requests) <= 1
    /\ op = "function_calling_flow"
          => Len(requests) = IF NotKey(envAtCall) THEN 0
                             ELSE IF requests[1].err # "" THEN 1
                             ELSE IF CarriesFunctionCall(sdk_response) THEN 2 ELSE 1
    /\ op \in {"basic_generation.py", "streaming_generation.py", "image_analysis.py"}
          => Len(requests) <= 1
    /\ op = "multimodal_chat.py"
          => Len(requests) <= 2 /\ (outcome = "exit0" => Len(requests) = 2)
    /\ op = "function_calling.py"
          => Len(requests) <= 3 /\ (outcome = "exit0" => Len(requests) \in {2, 3})

C4_Witness ==
    /\ op = "function_calling_flow" /\ outcome = "return"
    /\ Len(requests) = 2 /\ CarriesFunctionCall(sdk_response)

\* C5: a request that fails is the last thing its invocation does: the failure
\* is the outcome of the invocation, unchanged, and no request, print or other
\* step follows it.  In function_calling_flow a failed first request leaves one
\* request and nothing printed.  A failure inside the stream of stream_text is
\* the outcome of the next() that meets it and closes the generator, which
\* issues nothing afterwards.
C5_FailureSurfacesUnmodified ==
    /\ \A i \in 1..Len(requests) :
          requests[i].err # ""
             => /\ i = Len(requests)
                /\ outcome = requests[i].err
                /\ Last(effects) \in RequestKinds
    /\ (op \in Functions \cup Scripts /\ outcome \in Errors)
          => \/ requests # <<>> /\ Last(requests).err = outcome
             \/ requests # <<>> /\ Last(requests).err = "" /\ Last(requests).tail = outcome
             \/ op = "next (resumed)" /\ gen.tail = outcome
    /\ (op = "function_calling_flow" /\ requests # <<>> /\ requests[1].err # "")
          => Len(requests) = 1 /\ Prints(effects) = <<>>
    /\ (op \in {"next (first)", "next (resumed)"} /\ outcome \in Errors)
          => gen.state = "closed" /\ gen.chunks = <<>>
    /\ op = "next (closed)" => requests = <<>> /\ outcome = "StopIteration"

C5_Witness ==
    /\ op = "function_calling_flow" /\ Len(requests) = 1
    /\ requests[1].err = "QuotaError" /\ outcome = "QuotaError"

\* C6 as stated: a script run with the credential present reaches its request
\* whatever its arguments, and a script ends in error before a request only when
\* the credential is missing.
C6_ScriptsReachTheirRequest ==
    op \in Scripts
        => /\ ~NotKey(envAtCall) => requests # <<>>
           /\ (outcome # "exit0" /\ requests = <<>>) => NotKey(envAtCall)

\* C6 as amended: every script but image_analysis.py, run with the credential,
\* reaches its request whatever its arguments.  image_analysis.py run with no
\* argument prints its usage line and exits with status 1, having neither looked
\* the credential up nor attempted a request; run with a path and the credential
\* it reaches its request unless the image cannot be opened.  A script ends in
\* error before a request only without the credential, on that usage exit, or
\* when image_analysis.py cannot open its image.
C6_ScriptsAndUsageExit ==
    /\ (op \in Scripts \ {"image_analysis.py"} /\ ~NotKey(envAtCall)) => requests # <<>>
    /\ op = "image_analysis.py"
          => IF Len(argv) < 2
             THEN outcome = "exit1" /\ effects = <<"print:Usage">> /\ requests = <<>>
             ELSE IF NotKey(envAtCall)
             THEN outcome = "ValueError" /\ requests = <<>>
             ELSE requests # <<>> \/ outcome = "FileNotFoundError"
    /\ (op \in Scripts /\ outcome # "exit0" /\ requests = <<>>)
          => \/ NotKey(envAtCall) /\ outcome = "ValueError"
             \/ op = "image_analysis.py" /\ outcome \in {"exit1", "FileNotFoundError"}

C6_Witness ==
    /\ op = "image_analysis.py" /\ Len(argv) = 1 /\ envAtCall = Some("key")
    /\ outcome = "exit1"

\* C7: function_calling_flow sends a first request whose contents is the single
\* user turn holding the prompt.  When find_function_call finds nothing in the
\* first response it prints the response text and returns: one request, the
\* conversation still of length 1.  When it finds a call it sends exactly one
\* second request with the same tools, whose contents is the user turn, the
\* content of the first candidate of the first response, and a user turn holding
\* one function response named after the call found; the final response is
\* printed last, after the second request has returned.
C7_FlowProtocol ==
    op = "function_calling_flow"
        => LET found == find_function_call(sdk_response)
               turn == Content("user", <<TextPart("prompt")>>)
               first == <<"getenv", "Client", "generate_content">>
               second == first \o <<"print:Function called", "print:Arguments",
                                    "generate_content">>
           IN  /\ requests # <<>>
               /\ requests[1].api = "generate_content"
               /\ requests[1].contents = <<turn>>
               /\ found = None
                    => /\ Len(requests) = 1
                       /\ Len(contents) = 1
                       /\ effects = first \o <<"print:Response">>
                       /\ outcome = "return"
               /\ found # None
                    => /\ Len(requests) = 2
                       /\ requests[2].api = "generate_content"
                       /\ requests[2].tools = requests[1].tools
                       /\ Len(requests[2].contents) = 3
                       /\ requests[2].contents[1] = turn
                       /\ requests[2].contents[2] = sdk_response.candidates[1].content
                       /\ requests[2].contents[3].role = "user"
                       /\ Len(requests[2].contents[3].parts) = 1
                       /\ requests[2].contents[3].parts[1].function_response # None
                       /\ requests[2].contents[3].parts[1].function_response[1].name
                             = found[1].name
                       /\ contents = requests[2].contents
                       /\ effects = IF requests[2].err = ""
                                    THEN second \o <<"print:Final response">>
                                    ELSE second

C7_Witness ==
    /\ op = "function_calling_flow" /\ outcome = "return"
    /\ Len(requests) = 2 /\ Len(contents) = 3
    /\ Last(effects) = "print:Final response"

\* C8: whenever function_calling_flow sends its second request, the model turn
\* it appended carries the function call that the function response answers:
\* some part of that turn holds the call find_function_call returned.
C8_ModelTurnCarriesTheCall ==
    (op = "function_calling_flow" /\ Len(requests) = 2)
        => \E j \in 1..Len(requests[2].contents[2].parts) :
              requests[2].contents[2].parts[j].function_call
                  = find_function_call(sdk_response)

\* the parts of a response in scan order: candidates in order, and the parts of
\* each candidate in order
RECURSIVE ScanFrom(_, _)
ScanFrom(candidates, i) ==
    IF i > Len(candidates) THEN <<>>
    ELSE candidates[i].content.parts \o ScanFrom(candidates, i + 1)

\* the function calls of a response in scan order
CallsInScanOrder(response) ==
    LET scan == ScanFrom(response.candidates, 1)
        calls == SelectSeq(scan, LAMBDA part : part.function_call # None)
    IN  [k \in 1..Len(calls) |-> calls[k].function_call[1]]

\* C9 as stated: find_function_call returns the first function call in scan
\* order, and None exactly when no part carries one; extract_structured_data,
\* when its request returns, has issued exactly one request and returns the
\* arguments of that first call, and returns {} exactly when the response
\* carries no function call.
C9_FirstCallOrEmptyDict ==
    LET calls == CallsInScanOrder(sdk_response)
    IN  /\ op = "find_function_call"
            => /\ calls # <<>> => result = Some(calls[1])
               /\ result = None <=> ~CarriesFunctionCall(sdk_response)
        /\ (op = "extract_structured_data" /\ outcome = "return")
            => /\ Len(requests) = 1
               /\ calls # <<>> => result = calls[1].args
               /\ result = {} <=> ~CarriesFunctionCall(sdk_response)

\* C9 as amended: as stated, except that extract_structured_data returns {} when
\* the response carries no function call and also when the first function call
\* carries no arguments: the empty dict alone does not tell the two apart.
C9_FirstCallArguments ==
    LET calls == CallsInScanOrder(sdk_response)
    IN  /\ op = "find_function_call"
            => /\ calls # <<>> => result = Some(calls[1])
               /\ result = None <=> ~CarriesFunctionCall(sdk_response)
        /\ (op = "extract_structured_data" /\ outcome = "return")
            => /\ Len(requests) = 1
               /\ calls # <<>> => result = calls[1].args
               /\ ~CarriesFunctionCall(sdk_response) => result = {}
               /\ result = {} => \/ ~CarriesFunctionCall(sdk_response)
                                 \/ calls[1].args = {}

C9_Witness ==
    LET calls == CallsInScanOrder(sdk_response)
    IN  /\ op = "extract_structured_data" /\ outcome = "return"
        /\ Len(sdk_response.candidates) = 2
        /\ Len(calls) >= 2 /\ calls[1] # Last(calls)
        /\ result = calls[1].args /\ result # {}

====
